---- MODULE Spec2Model ----
(***************************************************************************)
(* Model of artman/config/loader.py: the artman configuration loader.      *)
(*                                                                         *)
(* Three entry points are modelled, each as a sequential state machine:    *)
(*   load_artifact_config  (Spec)      parse, validate, merge, normalize   *)
(*   _normalize_path       (PathSpec)  the path rewriting function alone   *)
(*   read_user_config      (UserSpec)  the user preference loader          *)
(*                                                                         *)
(* Python strings that the code inspects character by character (paths)    *)
(* are sequences of one-character strings; strings the code only compares  *)
(* for equality (artifact and publish-target names, enum tokens) are TLA+  *)
(* strings.  An optional value is a sequence of length at most one.        *)
(***************************************************************************)
EXTENDS Integers, Sequences, FiniteSets, TLC

VARIABLES
    presence,               \* whether the generated Artifact class tracks scalar presence
    artman_config_path,     \* load_artifact_config argument
    artifact_name,          \* load_artifact_config argument
    file_state,             \* what _parse finds at artman_config_path
    yaml,                   \* the document stored in the file, as authored
    config_pb,              \* optional: Config message returned by _parse
    artifact_config,        \* optional: the Artifact() being resolved
    valid_values,           \* names collected by the lookup loop
    idx,                    \* position of the lookup loop in artman_config.artifacts
    normalized_src_proto_paths, \* list built by _normalize_artifact_config
    sp_idx,                 \* position of the src_proto_paths loop
    np_path,                \* _normalize_path called alone: its path argument
    np_out,                 \* optional: outcome of the first call
    np_config,              \* config path argument of the second call
    np_again,               \* optional: outcome of the call on the first call's output
    user_path,              \* read_user_config argument
    home,                   \* $HOME, used by os.path.expanduser
    fs,                     \* the paths that are regular files
    content,                \* what the user config file holds
    pc,                     \* position of the running call
    raised,                 \* the exception that left the call, if any
    result,                 \* optional: the returned object
    log                     \* records passed to logger.warn / logger.error

vars ==
    << presence, artman_config_path, artifact_name, file_state, yaml, config_pb,
       artifact_config, valid_values, idx, normalized_src_proto_paths, sp_idx,
       np_path, np_out, np_config, np_again, user_path, home, fs, content,
       pc, raised, result, log >>

---------------------------------------------------------------------------
(* Bounds of the enumerated inputs.                                        *)

MaxPathLen == 3
MaxArtifacts == 3
MaxTargets == 2
MaxSrcPaths == 2
MaxUserPathLen == 3

---------------------------------------------------------------------------
(* Python str operations on character sequences.                           *)

StartsWith(s, prefix) ==
    /\ Len(s) >= Len(prefix)
    /\ SubSeq(s, 1, Len(prefix)) = prefix

Contains(s, sub) ==
    \E i \in 1..(Len(s) - Len(sub) + 1) : SubSeq(s, i, i + Len(sub) - 1) = sub

\* s.rfind('/') + 1: the position of the last '/', 0 when there is none.
LastSlash(s) ==
    IF \E i \in 1..Len(s) : s[i] = "/"
    THEN CHOOSE i \in 1..Len(s) : s[i] = "/" /\ \A j \in (i+1)..Len(s) : s[j] # "/"
    ELSE 0

\* s.find('/') + 1: the position of the first '/', 0 when there is none.
FirstSlash(s) ==
    IF \E i \in 1..Len(s) : s[i] = "/"
    THEN CHOOSE i \in 1..Len(s) : s[i] = "/" /\ \A j \in 1..(i-1) : s[j] # "/"
    ELSE 0

AllSlashes(s) ==
    \A i \in 1..Len(s) : s[i] = "/"

RECURSIVE RStripSlashes(_)
RStripSlashes(s) ==
    IF s # <<>> /\ s[Len(s)] = "/" THEN RStripSlashes(SubSeq(s, 1, Len(s) - 1)) ELSE s

\* os.path.isabs (posixpath): the path starts with '/'.
IsAbs(path) ==
    StartsWith(path, <<"/">>)

\* os.path.dirname (posixpath): everything up to the last '/', trailing
\* slashes stripped unless the head consists of slashes only.
Dirname(p) ==
    LET head == SubSeq(p, 1, LastSlash(p))
    IN  IF head # <<>> /\ ~AllSlashes(head) THEN RStripSlashes(head) ELSE head

\* os.path.join (posixpath) of two components.
Join(a, b) ==
    IF StartsWith(b, <<"/">>) THEN b
    ELSE IF a = <<>> \/ a[Len(a)] = "/" THEN a \o b
    ELSE a \o <<"/">> \o b

---------------------------------------------------------------------------
(* Exceptions and log records.  A message is its format string and the     *)
(* values substituted into it.  The backquotes of the source's messages are   *)
(* written as single quotes.                                               *)

CONFIG_NOT_FOUND_ERROR_MESSAGE_FORMAT ==
    "Artman YAML cannot be found at '%s'. Please check the file location."
INVALID_CONFIG_ERROR_MESSAGE_FORMAT ==
    "Artman YAML %s is invalid."
INVALID_USER_CONFIG_ERROR_MESSAGE_FORMAT ==
    "Artman user YAML %s is invalid."
DUPLICATE_ARTIFACT_FORMAT ==
    "artifact '%s' has been configured twice, please rename."
DUPLICATE_TARGET_FORMAT ==
    "publish target '%s' in artifact '%s' has been configured twice, please rename."
INCOMPATIBLE_MESSAGE ==
    "GRPC artifact type is invalid for NodeJS."
TRAVERSAL_FORMAT ==
    "'..' is disallowed in '%s' field of '%s'. Please use either a path relative to '%s' (preferred), or an absolute path."
NOT_FOUND_FORMAT ==
    "No artifact with '%s' configured in artman yaml. Valid values are %s"
NO_USER_CONFIG_WARNING ==
    "No artman user config defined. Use the default one for this execution. Run 'configure-artman' to set up user config."

NoException ==
    [type |-> "none", fmt |-> "", args |-> <<>>]

ValueError(fmt, args) ==
    [type |-> "ValueError", fmt |-> fmt, args |-> args]

\* An exception raised inside yaml.load / json.dumps / json_format.Parse.
LibraryError(type) ==
    [type |-> type, fmt |-> "", args |-> <<>>]

LogRecord(level, fmt, args) ==
    [level |-> level, fmt |-> fmt, args |-> args]

---------------------------------------------------------------------------
(* _normalize_path                                                         *)

\* The test of line 178.
IsTraversal(path) ==
    StartsWith(path, <<".", ".">>) \/ Contains(path, <<"/", ".", ".">>)

\* Faulty variant: an absolute path is joined to the config directory too.
NormalizePathAlwaysJoins(path, config_path, field) ==
    IF IsTraversal(path)
    THEN [ok |-> FALSE, val |-> <<>>,
          err |-> ValueError(TRAVERSAL_FORMAT, <<field, config_path, Dirname(config_path)>>)]
    ELSE [ok |-> TRUE, val |-> Dirname(config_path) \o <<"/">> \o path, err |-> NoException]

\* Faulty variant: only a leading '..' is rejected, not '/..' inside the path.
NormalizePathPrefixOnly(path, config_path, field) ==
    IF StartsWith(path, <<".", ".">>)
    THEN [ok |-> FALSE, val |-> <<>>,
          err |-> ValueError(TRAVERSAL_FORMAT, <<field, config_path, Dirname(config_path)>>)]
    ELSE IF IsAbs(path)
    THEN [ok |-> TRUE, val |-> path, err |-> NoException]
    ELSE [ok |-> TRUE, val |-> Join(Dirname(config_path), path), err |-> NoException]

\* The outcome of _normalize_path: the returned string, or the ValueError.
NormalizePath(path, config_path, field) ==
    IF IsTraversal(path)
    THEN [ok |-> FALSE, val |-> <<>>,
          err |-> ValueError(TRAVERSAL_FORMAT, <<field, config_path, Dirname(config_path)>>)]
    ELSE IF IsAbs(path)
    THEN [ok |-> TRUE, val |-> path, err |-> NoException]
    ELSE [ok |-> TRUE, val |-> Join(Dirname(config_path), path), err |-> NoException]

---------------------------------------------------------------------------
(* The protobuf messages of config_pb2 (Config, Artifact), as far as the   *)
(* loader reads them.  Artifact has the scalar fields name, language,      *)
(* type, service_yaml, gapic_yaml and the repeated fields src_proto_paths  *)
(* and publish_targets (messages with a name).  A scalar field that was    *)
(* never assigned reads as its default value.                              *)
(*                                                                         *)
(* The generated classes are not part of the sources at hand, so whether   *)
(* a scalar assigned its default value still counts as set (proto2         *)
(* optional fields: yes; proto3 fields: no) is left open: presence is      *)
(* chosen in the initial state and never changes.  `has` records the       *)
(* assigned scalar fields and is kept only when presence is tracked.       *)

ScalarFields ==
    {"name", "language", "type", "service_yaml", "gapic_yaml"}

DEFAULT_LANGUAGE == "LANGUAGE_0"
DEFAULT_TYPE == "TYPE_0"

DefaultOf(f) ==
    CASE f = "name" -> ""
      [] f = "language" -> DEFAULT_LANGUAGE
      [] f = "type" -> DEFAULT_TYPE
      [] f = "service_yaml" -> <<>>
      [] f = "gapic_yaml" -> <<>>

\* Artifact(): every field at its default.
EmptyArtifact ==
    [name |-> "", language |-> DEFAULT_LANGUAGE, type |-> DEFAULT_TYPE,
     service_yaml |-> <<>>, gapic_yaml |-> <<>>,
     src_proto_paths |-> <<>>, publish_targets |-> <<>>, has |-> {}]

\* Whether MergeFrom / serialization sees scalar field f of msg as set.
IsSet(msg, f) ==
    IF presence THEN f \in msg.has ELSE msg[f] # DefaultOf(f)

\* An authored artifact section: every key is optional (a sequence of
\* length at most one).
YamlArtifact(name, language, type, service_yaml, gapic_yaml, src_proto_paths, publish_targets) ==
    [name |-> name, language |-> language, type |-> type,
     service_yaml |-> service_yaml, gapic_yaml |-> gapic_yaml,
     src_proto_paths |-> src_proto_paths, publish_targets |-> publish_targets]

YamlScalar(y, f) ==
    IF y[f] = <<>> THEN DefaultOf(f) ELSE y[f][1]

\* json_format.Parse of one artifact section into an Artifact message.
ParseArtifact(y) ==
    [name |-> YamlScalar(y, "name"),
     language |-> YamlScalar(y, "language"),
     type |-> YamlScalar(y, "type"),
     service_yaml |-> YamlScalar(y, "service_yaml"),
     gapic_yaml |-> YamlScalar(y, "gapic_yaml"),
     src_proto_paths |-> IF y.src_proto_paths = <<>> THEN <<>> ELSE y.src_proto_paths[1],
     publish_targets |-> IF y.publish_targets = <<>> THEN <<>> ELSE y.publish_targets[1],
     has |-> IF presence THEN {f \in ScalarFields : y[f] # <<>>} ELSE {}]

\* yaml.load + json.dumps + json_format.Parse of a well-formed document.
ParseConfig(doc) ==
    [common |-> ParseArtifact(doc.common),
     artifacts |-> [i \in 1..Len(doc.artifacts) |-> ParseArtifact(doc.artifacts[i])]]

MergeScalar(dst, src, f) ==
    IF IsSet(src, f) THEN src[f] ELSE dst[f]

\* Faulty variant: a repeated field of src replaces dst's instead of being
\* appended to it.
MergeFromReplacingRepeated(dst, src) ==
    [name |-> MergeScalar(dst, src, "name"),
     language |-> MergeScalar(dst, src, "language"),
     type |-> MergeScalar(dst, src, "type"),
     service_yaml |-> MergeScalar(dst, src, "service_yaml"),
     gapic_yaml |-> MergeScalar(dst, src, "gapic_yaml"),
     src_proto_paths |->
        IF src.src_proto_paths # <<>> THEN src.src_proto_paths ELSE dst.src_proto_paths,
     publish_targets |->
        IF src.publish_targets # <<>> THEN src.publish_targets ELSE dst.publish_targets,
     has |-> dst.has \cup src.has]

\* Faulty variant: a scalar already set on dst is kept.
MergeFromKeepingDestination(dst, src) ==
    [name |-> IF IsSet(dst, "name") THEN dst.name ELSE src.name,
     language |-> IF IsSet(dst, "language") THEN dst.language ELSE src.language,
     type |-> IF IsSet(dst, "type") THEN dst.type ELSE src.type,
     service_yaml |-> IF IsSet(dst, "service_yaml") THEN dst.service_yaml ELSE src.service_yaml,
     gapic_yaml |-> IF IsSet(dst, "gapic_yaml") THEN dst.gapic_yaml ELSE src.gapic_yaml,
     src_proto_paths |-> dst.src_proto_paths \o src.src_proto_paths,
     publish_targets |-> dst.publish_targets \o src.publish_targets,
     has |-> dst.has \cup src.has]

\* Message.MergeFrom: a set scalar of src overwrites dst's, repeated fields
\* of src are appended to dst's.
MergeFrom(dst, src) ==
    [name |-> MergeScalar(dst, src, "name"),
     language |-> MergeScalar(dst, src, "language"),
     type |-> MergeScalar(dst, src, "type"),
     service_yaml |-> MergeScalar(dst, src, "service_yaml"),
     gapic_yaml |-> MergeScalar(dst, src, "gapic_yaml"),
     src_proto_paths |-> dst.src_proto_paths \o src.src_proto_paths,
     publish_targets |-> dst.publish_targets \o src.publish_targets,
     has |-> dst.has \cup src.has]

---------------------------------------------------------------------------
(* _validate_artman_config and _validate_artifact_config                   *)

\* The inner loop of _validate_artman_config over artifact.publish_targets,
\* from position j with the names seen so far; the message or nothing.
RECURSIVE ValidateTargets(_, _, _)
ValidateTargets(artifact, j, targets) ==
    IF j > Len(artifact.publish_targets) THEN <<>>
    ELSE LET target == artifact.publish_targets[j]
         IN  IF target.name \in targets
             THEN << [fmt |-> DUPLICATE_TARGET_FORMAT, args |-> <<target.name, artifact.name>>] >>
             ELSE ValidateTargets(artifact, j + 1, targets \cup {target.name})

\* The outer loop, from position i with the artifact names seen so far.
RECURSIVE ValidateArtifacts(_, _, _)
ValidateArtifacts(pb, i, artifacts) ==
    IF i > Len(pb.artifacts) THEN <<>>
    ELSE LET artifact == pb.artifacts[i]
         IN  IF artifact.name \in artifacts
             THEN << [fmt |-> DUPLICATE_ARTIFACT_FORMAT, args |-> <<artifact.name>>] >>
             ELSE LET found == ValidateTargets(artifact, 1, {})
                  IN  IF found # <<>> THEN found
                      ELSE ValidateArtifacts(pb, i + 1, artifacts \cup {artifact.name})

\* Faulty variant: only artifact names are checked, publish targets are not.
ValidateArtmanConfigNamesOnly(pb) ==
    IF \E i, j \in 1..Len(pb.artifacts) : i < j /\ pb.artifacts[i].name = pb.artifacts[j].name
    THEN LET j == CHOOSE j \in 1..Len(pb.artifacts) :
                      /\ \E i \in 1..(j-1) : pb.artifacts[i].name = pb.artifacts[j].name
                      /\ \A k \in 1..(j-1) :
                            ~ \E i \in 1..(k-1) : pb.artifacts[i].name = pb.artifacts[k].name
         IN  << [fmt |-> DUPLICATE_ARTIFACT_FORMAT, args |-> <<pb.artifacts[j].name>>] >>
    ELSE <<>>

\* _validate_artman_config: the message of the first violation, or None
\* (the empty sequence).
ValidateArtmanConfig(pb) ==
    ValidateArtifacts(pb, 1, {})

\* Faulty variant: no language/type pair is rejected.
IncompatibleNever(config) ==
    FALSE

\* The test of _validate_artifact_config.
Incompatible(config) ==
    config.language = "NODEJS" /\ config.type = "GRPC"

---------------------------------------------------------------------------
(* load_artifact_config, statement by statement.                           *)

Raise(e) ==
    /\ raised' = e
    /\ pc' = "raised"

\* _parse (called from _read_artman_config, line 82).
Parse ==
    /\ pc = "parse"
    /\ \/ /\ file_state = "missing"
          /\ Raise(ValueError(CONFIG_NOT_FOUND_ERROR_MESSAGE_FORMAT, <<artman_config_path>>))
          /\ UNCHANGED <<config_pb, log>>
       \/ /\ file_state \in {"yaml.parser.ParserError", "json_format.ParseError"}
          /\ log' = Append(log, LogRecord("error", INVALID_CONFIG_ERROR_MESSAGE_FORMAT,
                                          <<artman_config_path>>))
          /\ Raise(LibraryError(file_state))
          /\ UNCHANGED config_pb
       \/ /\ file_state = "other exception"
          /\ Raise(LibraryError(file_state))
          /\ UNCHANGED <<config_pb, log>>
       \/ /\ file_state = "ok"
          /\ config_pb' = <<ParseConfig(yaml)>>
          /\ pc' = "validate"
          /\ UNCHANGED <<raised, log>>
    /\ UNCHANGED <<presence, artman_config_path, artifact_name, file_state, yaml,
                   artifact_config, valid_values, idx, normalized_src_proto_paths,
                   sp_idx, np_path, np_out, np_config, np_again, user_path, home, fs, content,
                   result>>

\* _read_artman_config, lines 83-87.
ValidateConfig ==
    /\ pc = "validate"
    /\ LET validation_result == ValidateArtmanConfig(config_pb[1])
       IN  IF validation_result # <<>>
           THEN Raise(ValueError(validation_result[1].fmt, validation_result[1].args))
           ELSE pc' = "copy" /\ UNCHANGED raised
    /\ UNCHANGED <<presence, artman_config_path, artifact_name, file_state, yaml,
                   config_pb, artifact_config, valid_values, idx,
                   normalized_src_proto_paths, sp_idx, np_path, np_out, np_config, np_again,
                   user_path, home, fs, content, result, log>>

\* Lines 42-44: artifact_config = Artifact(); CopyFrom(common); valid_values = [].
CopyCommon ==
    /\ pc = "copy"
    /\ artifact_config' = <<config_pb[1].common>>
    /\ valid_values' = <<>>
    /\ idx' = 1
    /\ pc' = "scan"
    /\ UNCHANGED <<presence, artman_config_path, artifact_name, file_state, yaml,
                   config_pb, normalized_src_proto_paths, sp_idx, np_path, np_out, np_config,
                   np_again, user_path, home, fs, content, raised, result, log>>

\* Faulty variant: valid_values is overwritten with the current name instead
\* of being appended to.
ScanArtifactKeepingLast ==
    /\ pc = "scan"
    /\ idx <= Len(config_pb[1].artifacts)
    /\ valid_values' = <<config_pb[1].artifacts[idx].name>>
    /\ IF config_pb[1].artifacts[idx].name = artifact_name
       THEN pc' = "merge" /\ UNCHANGED idx
       ELSE idx' = idx + 1 /\ UNCHANGED pc
    /\ UNCHANGED <<presence, artman_config_path, artifact_name, file_state, yaml,
                   config_pb, artifact_config, normalized_src_proto_paths, sp_idx,
                   np_path, np_out, np_config, np_again, user_path, home, fs, content,
                   raised, result, log>>

\* One iteration of the loop of line 45 up to the test of line 47.
ScanArtifact ==
    /\ pc = "scan"
    /\ idx <= Len(config_pb[1].artifacts)
    /\ valid_values' = Append(valid_values, config_pb[1].artifacts[idx].name)
    /\ IF config_pb[1].artifacts[idx].name = artifact_name
       THEN pc' = "merge" /\ UNCHANGED idx
       ELSE idx' = idx + 1 /\ UNCHANGED pc
    /\ UNCHANGED <<presence, artman_config_path, artifact_name, file_state, yaml,
                   config_pb, artifact_config, normalized_src_proto_paths, sp_idx,
                   np_path, np_out, np_config, np_again, user_path, home, fs, content, raised,
                   result, log>>

\* Lines 53-55: the loop ended without a match.
NotFound ==
    /\ pc = "scan"
    /\ idx > Len(config_pb[1].artifacts)
    /\ Raise(ValueError(NOT_FOUND_FORMAT, <<artifact_name, valid_values>>))
    /\ UNCHANGED <<presence, artman_config_path, artifact_name, file_state, yaml,
                   config_pb, artifact_config, valid_values, idx,
                   normalized_src_proto_paths, sp_idx, np_path, np_out, np_config, np_again,
                   user_path, home, fs, content, result, log>>

\* Line 48.
Merge ==
    /\ pc = "merge"
    /\ artifact_config' = <<MergeFrom(artifact_config[1], config_pb[1].artifacts[idx])>>
    /\ pc' = "validate_artifact"
    /\ UNCHANGED <<presence, artman_config_path, artifact_name, file_state, yaml,
                   config_pb, valid_values, idx, normalized_src_proto_paths, sp_idx,
                   np_path, np_out, np_config, np_again, user_path, home, fs, content, raised,
                   result, log>>

\* Line 49: _validate_artifact_config.
ValidateArtifact ==
    /\ pc = "validate_artifact"
    /\ IF Incompatible(artifact_config[1])
       THEN Raise(ValueError(INCOMPATIBLE_MESSAGE, <<>>))
       ELSE pc' = "service_yaml" /\ UNCHANGED raised
    /\ UNCHANGED <<presence, artman_config_path, artifact_name, file_state, yaml,
                   config_pb, artifact_config, valid_values, idx,
                   normalized_src_proto_paths, sp_idx, np_path, np_out, np_config, np_again,
                   user_path, home, fs, content, result, log>>

\* Lines 151-153.
NormalizeServiceYaml ==
    /\ pc = "service_yaml"
    /\ IF artifact_config[1].service_yaml # <<>>
       THEN LET r == NormalizePath(artifact_config[1].service_yaml, artman_config_path,
                                   "service_yaml")
            IN  IF r.ok
                THEN /\ artifact_config' = <<[artifact_config[1] EXCEPT !.service_yaml = r.val]>>
                     /\ pc' = "gapic_yaml"
                     /\ UNCHANGED raised
                ELSE Raise(r.err) /\ UNCHANGED artifact_config
       ELSE pc' = "gapic_yaml" /\ UNCHANGED <<artifact_config, raised>>
    /\ UNCHANGED <<presence, artman_config_path, artifact_name, file_state, yaml,
                   config_pb, valid_values, idx, normalized_src_proto_paths, sp_idx,
                   np_path, np_out, np_config, np_again, user_path, home, fs, content, result, log>>

\* Lines 155-159.
NormalizeGapicYaml ==
    /\ pc = "gapic_yaml"
    /\ IF artifact_config[1].gapic_yaml # <<>>
       THEN LET r == NormalizePath(artifact_config[1].gapic_yaml, artman_config_path,
                                   "gapic_yaml")
            IN  IF r.ok
                THEN /\ artifact_config' = <<[artifact_config[1] EXCEPT !.gapic_yaml = r.val]>>
                     /\ pc' = "src_proto_paths"
                     /\ UNCHANGED raised
                ELSE Raise(r.err) /\ UNCHANGED artifact_config
       ELSE pc' = "src_proto_paths" /\ UNCHANGED <<artifact_config, raised>>
    /\ IF pc' = "src_proto_paths"
       THEN normalized_src_proto_paths' = <<>> /\ sp_idx' = 1
       ELSE UNCHANGED <<normalized_src_proto_paths, sp_idx>>
    /\ UNCHANGED <<presence, artman_config_path, artifact_name, file_state, yaml,
                   config_pb, valid_values, idx, np_path, np_out, np_config, np_again,
                   user_path, home, fs, content, result, log>>

\* Faulty variant: the exclusion marker is not split off before the test.
NormalizeEntryWholeEntry(src_proto_path, config_path) ==
    NormalizePath(src_proto_path, config_path, "src_proto_paths")

\* The body of the loop of line 160: the string appended, or the ValueError.
NormalizeEntry(src_proto_path, config_path) ==
    IF StartsWith(src_proto_path, <<"-">>)
    THEN LET r == NormalizePath(Tail(src_proto_path), config_path, "src_proto_paths")
         IN  [r EXCEPT !.val = IF r.ok THEN <<"-">> \o r.val ELSE <<>>]
    ELSE NormalizePath(src_proto_path, config_path, "src_proto_paths")

\* One iteration of the loop of lines 160-171.
NormalizeSrcProtoPath ==
    /\ pc = "src_proto_paths"
    /\ sp_idx <= Len(artifact_config[1].src_proto_paths)
    /\ LET r == NormalizeEntry(artifact_config[1].src_proto_paths[sp_idx], artman_config_path)
       IN  IF r.ok
           THEN /\ normalized_src_proto_paths' = Append(normalized_src_proto_paths, r.val)
                /\ sp_idx' = sp_idx + 1
                /\ UNCHANGED <<pc, raised>>
           ELSE /\ Raise(r.err)
                /\ UNCHANGED <<normalized_src_proto_paths, sp_idx>>
    /\ UNCHANGED <<presence, artman_config_path, artifact_name, file_state, yaml,
                   config_pb, artifact_config, valid_values, idx, np_path, np_out, np_config,
                   np_again, user_path, home, fs, content, result, log>>

\* Lines 172-174 and the return of line 50.
ReturnArtifactConfig ==
    /\ pc = "src_proto_paths"
    /\ sp_idx > Len(artifact_config[1].src_proto_paths)
    /\ artifact_config' =
          <<[artifact_config[1] EXCEPT !.src_proto_paths = normalized_src_proto_paths]>>
    /\ result' = artifact_config'
    /\ pc' = "returned"
    /\ UNCHANGED <<presence, artman_config_path, artifact_name, file_state, yaml,
                   config_pb, valid_values, idx, normalized_src_proto_paths, sp_idx,
                   np_path, np_out, np_config, np_again, user_path, home, fs, content, raised, log>>

Next ==
    \/ Parse
    \/ ValidateConfig
    \/ CopyCommon
    \/ ScanArtifact
    \/ NotFound
    \/ Merge
    \/ ValidateArtifact
    \/ NormalizeServiceYaml
    \/ NormalizeGapicYaml
    \/ NormalizeSrcProtoPath
    \/ ReturnArtifactConfig

---------------------------------------------------------------------------
(* The inputs enumerated in the initial states.                            *)

SeqsUpTo(S, n) ==
    UNION {[1..k -> S] : k \in 0..n}

NonEmptySeqsUpTo(S, n) ==
    UNION {[1..k -> S] : k \in 1..n}

\* Either nothing or one value of S.
Optional(S) ==
    {<<>>} \cup {<<x>> : x \in S}

ArtifactNames == {"a", "b", "c"}
RequestNames == ArtifactNames \cup {"z"}
TargetNames == {"t", "u"}
PublishTargets == {[name |-> n] : n \in TargetNames}

PathChars == {"/", ".", "a", "-"}

\* The paths named by the specification's examples.
DotDotSlashX == <<".", ".", "/", "x">>
ASlashDotDotSlashB == <<"a", "/", ".", ".", "/", "b">>
ASlashDotDotB == <<"a", "/", ".", ".", "b">>
ADotDotB == <<"a", ".", ".", "b">>
ExclDotDotSlashX == <<"-", ".", ".", "/", "x">>
CfgExample ==
    <<"/", "h", "o", "m", "e", "/", "u", "/", "c", "o", "n", "f", "/",
      "a", "r", "t", "m", "a", "n", ".", "y", "a", "m", "l">>
ProtoX ==
    <<"p", "r", "o", "t", "o", "s", "/", "x", ".", "p", "r", "o", "t", "o">>
ExclProtoY ==
    <<"-", "p", "r", "o", "t", "o", "s", "/", "y", ".", "p", "r", "o", "t", "o">>
NormProtoX ==
    <<"/", "h", "o", "m", "e", "/", "u", "/", "c", "o", "n", "f", "/",
      "p", "r", "o", "t", "o", "s", "/", "x", ".", "p", "r", "o", "t", "o">>
NormExclProtoY ==
    <<"-", "/", "h", "o", "m", "e", "/", "u", "/", "c", "o", "n", "f", "/",
      "p", "r", "o", "t", "o", "s", "/", "y", ".", "p", "r", "o", "t", "o">>

ExamplePaths ==
    {DotDotSlashX, ASlashDotDotSlashB, ASlashDotDotB, ADotDotB, ExclDotDotSlashX,
     ProtoX, ExclProtoY}

PathPool ==
    SeqsUpTo(PathChars, MaxPathLen) \cup ExamplePaths

\* A relative path, an excluded one, an absolute one, and two traversals.
SmallPaths ==
    {<<"a">>, <<"-", "a">>, <<"/", "a">>, <<".", ".">>, <<"-", ".", ".">>}

\* Locations of the config document: in the working directory, in the root
\* directory, in a relative and in an absolute directory, below a doubled
\* slash, in directories reached through '..', and in a relative directory
\* whose name starts with '-'.
ConfigPaths ==
    {<<"c">>, <<"/", "c">>, <<"d", "/", "c">>, <<"/", "d", "/", "c">>,
     <<"/", "d", "/", "/", "c">>, <<".", ".", "/", "c">>, <<"/", ".", ".", "/", "c">>,
     <<"-", "d", "/", "c">>, CfgExample}

DefaultConfigPath == <<"/", "d", "/", "c">>

Unset == <<>>

EmptySection ==
    YamlArtifact(Unset, Unset, Unset, Unset, Unset, Unset, Unset)

Document(common, artifacts) ==
    [common |-> common, artifacts |-> artifacts]

Languages == {DEFAULT_LANGUAGE, "PYTHON", "NODEJS"}
Types == {DEFAULT_TYPE, "GRPC", "GAPIC"}

\* Documents whose common section and single artifact "a" vary in language
\* and type, the artifact also carrying traversal paths or not.
LanguageTypeDocs ==
    {Document(YamlArtifact(Unset, cl, ct, Unset, Unset, Unset, Unset),
              <<YamlArtifact(<<"a">>, al, at, s, Unset, p, Unset)>>) :
        cl \in Optional(Languages), ct \in Optional(Types),
        al \in Optional(Languages), at \in Optional(Types),
        s \in {Unset, <<DotDotSlashX>>}, p \in {Unset, <<<<DotDotSlashX>>>>}}

MergePaths == {<<>>, <<"s">>, <<"r">>}

\* Documents whose common section and artifact "a" vary in one path field.
PathMergeDocs ==
    {Document(YamlArtifact(Unset, Unset, Unset, cs, cg, Unset, Unset),
              <<YamlArtifact(<<"a">>, Unset, Unset, as, ag, Unset, Unset)>>) :
        cs \in Optional(MergePaths), cg \in Optional({<<"g">>}),
        as \in Optional(MergePaths), ag \in Optional({<<>>, <<"h">>})}

\* Documents whose common section and artifact "a" vary in a repeated field.
RepeatedMergeDocs ==
    {Document(YamlArtifact(Unset, Unset, Unset, Unset, Unset, cp, Unset),
              <<YamlArtifact(<<"a">>, Unset, Unset, Unset, Unset, ap, Unset)>>) :
        cp \in Optional(SeqsUpTo({<<"p">>, <<"q">>}, MaxSrcPaths)),
        ap \in Optional(SeqsUpTo({<<"p">>, <<"q">>}, MaxSrcPaths))}
    \cup
    {Document(YamlArtifact(Unset, Unset, Unset, Unset, Unset, Unset, ct),
              <<YamlArtifact(<<"a">>, Unset, Unset, Unset, Unset, Unset, at)>>) :
        ct \in Optional(SeqsUpTo(PublishTargets, MaxTargets)),
        at \in Optional(SeqsUpTo(PublishTargets, MaxTargets))}

MergeDocs ==
    LanguageTypeDocs \cup PathMergeDocs \cup RepeatedMergeDocs

Named(n, targets) ==
    YamlArtifact(<<n>>, Unset, Unset, Unset, Unset, Unset, targets)

\* Documents of up to MaxArtifacts artifacts with any names, at most one of
\* which has publish targets, and documents of two artifacts that both do.
ValidateDocs ==
    {Document(EmptySection, [i \in 1..k |-> Named(names[i], IF i = at THEN <<ts>> ELSE Unset)]) :
        <<k, names, at, ts>> \in
            UNION { {<<k, names, at, ts>> :
                        names \in [1..k -> ArtifactNames], at \in 1..k,
                        ts \in SeqsUpTo(PublishTargets, MaxTargets)} :
                    k \in 0..MaxArtifacts }}
    \cup
    {Document(EmptySection, <<Named(n1, <<t1>>), Named(n2, <<t2>>)>>) :
        n1 \in {"a", "b"}, n2 \in {"a", "b"},
        t1 \in NonEmptySeqsUpTo(PublishTargets, MaxTargets),
        t2 \in NonEmptySeqsUpTo(PublishTargets, MaxTargets)}

\* Documents with the single artifact "a" whose path fields vary.
NormalizeDocs ==
    {Document(EmptySection, <<YamlArtifact(<<"a">>, Unset, Unset, <<p>>, Unset, Unset, Unset)>>) :
        p \in PathPool}
    \cup
    {Document(EmptySection, <<YamlArtifact(<<"a">>, Unset, Unset, Unset, <<p>>, Unset, Unset)>>) :
        p \in PathPool}
    \cup
    {Document(EmptySection, <<YamlArtifact(<<"a">>, Unset, Unset, Unset, Unset, <<<<p>>>>, Unset)>>) :
        p \in PathPool}
    \cup
    {Document(EmptySection, <<YamlArtifact(<<"a">>, Unset, Unset, s, g, <<ps>>, Unset)>>) :
        s \in {Unset, <<<<"a">>>>, <<<<".", ".">>>>},
        g \in {Unset, <<<<"a">>>>, <<<<".", ".">>>>},
        ps \in SeqsUpTo(SmallPaths, MaxSrcPaths)}
    \cup
    {Document(YamlArtifact(Unset, <<"PYTHON">>, Unset, Unset, Unset, Unset, Unset),
              <<YamlArtifact(<<"foo">>, Unset, <<"GRPC">>, Unset, Unset,
                             <<<<ProtoX, ExclProtoY>>>>, Unset)>>)}

\* The name an authored section gives its artifact.
SectionName(y) ==
    IF y.name = <<>> THEN "" ELSE y.name[1]

FileStates ==
    {"ok", "missing", "yaml.parser.ParserError", "json_format.ParseError", "other exception"}

NoDocument ==
    Document(EmptySection, <<>>)

Init ==
    /\ presence \in BOOLEAN
    /\ \/ /\ file_state = "ok"
          /\ yaml \in MergeDocs
          /\ artifact_name = "a"
          /\ artman_config_path = DefaultConfigPath
       \/ /\ file_state = "ok"
          /\ yaml \in ValidateDocs
          /\ artifact_name \in RequestNames
          /\ artman_config_path = DefaultConfigPath
       \/ /\ file_state = "ok"
          /\ yaml \in NormalizeDocs
          /\ artifact_name = SectionName(yaml.artifacts[1])
          /\ artman_config_path \in ConfigPaths
       \/ /\ file_state \in FileStates \ {"ok"}
          /\ yaml = NoDocument
          /\ artifact_name \in RequestNames
          /\ artman_config_path \in ConfigPaths
    /\ config_pb = <<>>
    /\ artifact_config = <<>>
    /\ valid_values = <<>>
    /\ idx = 0
    /\ normalized_src_proto_paths = <<>>
    /\ sp_idx = 0
    /\ np_path = <<>>
    /\ np_out = <<>>
    /\ np_config = <<>>
    /\ np_again = <<>>
    /\ user_path = <<>>
    /\ home = <<>>
    /\ fs = {}
    /\ content = "none"
    /\ pc = "parse"
    /\ raised = NoException
    /\ result = <<>>
    /\ log = <<>>

Spec ==
    Init /\ [][Next]_vars

---------------------------------------------------------------------------
(* _normalize_path called alone, and called once more on what it returned. *)

InitPath ==
    /\ presence = FALSE
    /\ artman_config_path \in ConfigPaths
    /\ artifact_name = ""
    /\ file_state = "ok"
    /\ yaml = NoDocument
    /\ config_pb = <<>>
    /\ artifact_config = <<>>
    /\ valid_values = <<>>
    /\ idx = 0
    /\ normalized_src_proto_paths = <<>>
    /\ sp_idx = 0
    /\ np_path \in PathPool
    /\ np_out = <<>>
    /\ np_config = <<>>
    /\ np_again = <<>>
    /\ user_path = <<>>
    /\ home = <<>>
    /\ fs = {}
    /\ content = "none"
    /\ pc = "normalize_path"
    /\ raised = NoException
    /\ result = <<>>
    /\ log = <<>>

NormalizeOnce ==
    /\ pc = "normalize_path"
    /\ LET r == NormalizePath(np_path, artman_config_path, "service_yaml")
       IN  /\ np_out' = <<r>>
           /\ IF r.ok THEN pc' = "normalize_again" /\ UNCHANGED raised ELSE Raise(r.err)
    /\ UNCHANGED <<presence, artman_config_path, artifact_name, file_state, yaml,
                   config_pb, artifact_config, valid_values, idx,
                   normalized_src_proto_paths, sp_idx, np_path, np_config, np_again,
                   user_path, home, fs, content, result, log>>

NormalizeAgain ==
    /\ pc = "normalize_again"
    /\ \E config_path \in ConfigPaths :
          LET r == NormalizePath(np_out[1].val, config_path, "service_yaml")
          IN  /\ np_config' = config_path
              /\ np_again' = <<r>>
              /\ IF r.ok THEN pc' = "returned" /\ UNCHANGED raised ELSE Raise(r.err)
    /\ UNCHANGED <<presence, artman_config_path, artifact_name, file_state, yaml,
                   config_pb, artifact_config, valid_values, idx,
                   normalized_src_proto_paths, sp_idx, np_path, np_out,
                   user_path, home, fs, content, result, log>>

NextPath ==
    \/ NormalizeOnce
    \/ NormalizeAgain

PathSpec ==
    InitPath /\ [][NextPath]_vars

---------------------------------------------------------------------------
(* read_user_config                                                        *)

\* UserConfig(): every field at its default.  The fields of the message are
\* not read by the loader; the message is modelled by the values the file
\* assigned.
DefaultUserConfig ==
    [assigned |-> {}]

\* The users pwd.getpwnam knows besides the caller, with their home directories.
PasswdHome(name) ==
    IF name = <<"a">> THEN << <<"/", "a">> >> ELSE <<>>

\* os.path.expanduser (posixpath) with $HOME set to home_dir.
ExpandUser(path, home_dir) ==
    IF ~StartsWith(path, <<"~">>) THEN path
    ELSE LET i == IF FirstSlash(path) = 0 THEN Len(path) + 1 ELSE FirstSlash(path)
             rest == SubSeq(path, i, Len(path))
             name == SubSeq(path, 2, i - 1)
         IN  IF i = 2
             THEN IF RStripSlashes(home_dir) \o rest = <<>> THEN <<"/">>
                  ELSE RStripSlashes(home_dir) \o rest
             ELSE IF PasswdHome(name) = <<>> THEN path
             ELSE IF RStripSlashes(PasswdHome(name)[1]) \o rest = <<>> THEN <<"/">>
                  ELSE RStripSlashes(PasswdHome(name)[1]) \o rest

UserPathChars == {"~", "/", "a"}
UserPaths == SeqsUpTo(UserPathChars, MaxUserPathLen)
Homes == {<<"/", "h">>, <<"/">>}
FilePool == {<<"a">>, <<"/", "a">>, <<"/", "h", "/", "a">>, <<"/", "a", "/", "a">>}
AssignedSets == {{}, {"local_paths"}}

\* What the file holds: a document that parses into UserConfig, or one on
\* which yaml.load / json.dumps / json_format.Parse raises.
Contents ==
    {[kind |-> "ok", assigned |-> v] : v \in AssignedSets}
    \cup {[kind |-> k, assigned |-> {}] :
            k \in {"yaml.parser.ParserError", "json_format.ParseError", "other exception"}}

InitUser ==
    /\ presence = FALSE
    /\ artman_config_path = <<>>
    /\ artifact_name = ""
    /\ file_state = "ok"
    /\ yaml = NoDocument
    /\ config_pb = <<>>
    /\ artifact_config = <<>>
    /\ valid_values = <<>>
    /\ idx = 0
    /\ normalized_src_proto_paths = <<>>
    /\ sp_idx = 0
    /\ np_path = <<>>
    /\ np_out = <<>>
    /\ np_config = <<>>
    /\ np_again = <<>>
    /\ user_path \in UserPaths
    /\ home \in Homes
    /\ fs \in SUBSET FilePool
    /\ content \in Contents
    /\ pc = "read_user_config"
    /\ raised = NoException
    /\ result = <<>>
    /\ log = <<>>

\* Lines 60-66.
CheckUserConfig ==
    /\ pc = "read_user_config"
    /\ user_path' = ExpandUser(user_path, home)
    /\ IF user_path' \notin fs
       THEN /\ log' = Append(log, LogRecord("warn", NO_USER_CONFIG_WARNING, <<>>))
            /\ result' = <<DefaultUserConfig>>
            /\ pc' = "returned"
       ELSE /\ pc' = "load_user_config"
            /\ UNCHANGED <<log, result>>
    /\ UNCHANGED <<presence, artman_config_path, artifact_name, file_state, yaml,
                   config_pb, artifact_config, valid_values, idx,
                   normalized_src_proto_paths, sp_idx, np_path, np_out, np_config,
                   np_again, home, fs, content, raised>>

\* Lines 68-78.
LoadUserConfig ==
    /\ pc = "load_user_config"
    /\ \/ /\ content.kind = "ok"
          /\ result' = <<[assigned |-> content.assigned]>>
          /\ pc' = "returned"
          /\ UNCHANGED <<raised, log>>
       \/ /\ content.kind \in {"yaml.parser.ParserError", "json_format.ParseError"}
          /\ log' = Append(log, LogRecord("error", INVALID_USER_CONFIG_ERROR_MESSAGE_FORMAT,
                                          <<user_path>>))
          /\ Raise(LibraryError(content.kind))
          /\ UNCHANGED result
       \/ /\ content.kind = "other exception"
          /\ Raise(LibraryError(content.kind))
          /\ UNCHANGED <<result, log>>
    /\ UNCHANGED <<presence, artman_config_path, artifact_name, file_state, yaml,
                   config_pb, artifact_config, valid_values, idx,
                   normalized_src_proto_paths, sp_idx, np_path, np_out, np_config,
                   np_again, user_path, home, fs, content>>

NextUser ==
    \/ CheckUserConfig
    \/ LoadUserConfig

UserSpec ==
    InitUser /\ [][NextUser]_vars

---------------------------------------------------------------------------
(* What the properties below speak about.                                  *)

RepeatedFields ==
    {"src_proto_paths", "publish_targets"}

\* The lookup loop stopped at an artifact named artifact_name; idx is its
\* position from then on.
Matched ==
    /\ valid_values # <<>>
    /\ valid_values[Len(valid_values)] = artifact_name

\* The authored sections the resolution merges.
CommonSection == yaml.common
NamedSection == yaml.artifacts[idx]

\* The entries an authored section gives a repeated field.
Entries(y, f) ==
    IF y[f] = <<>> THEN <<>> ELSE y[f][1]

\* The resolved configuration as it was when normalization started.
BeforeNormalization ==
    MergeFrom(config_pb[1].common, config_pb[1].artifacts[idx])

\* A path component equal to '..'.
HasParentSegment(p) ==
    \E i \in 1..(Len(p) - 1) :
        /\ p[i] = "." /\ p[i + 1] = "."
        /\ (i = 1 \/ p[i - 1] = "/")
        /\ (i + 1 = Len(p) \/ p[i + 2] = "/")

\* 'starts with .. or contains the substring /..', written out.
StartsWithDotDotOrContainsSlashDotDot(p) ==
    \/ (Len(p) >= 2 /\ p[1] = "." /\ p[2] = ".")
    \/ \E i \in 1..(Len(p) - 2) : p[i] = "/" /\ p[i + 1] = "." /\ p[i + 2] = "."

Marked(entry) ==
    entry # <<>> /\ entry[1] = "-"

\* An entry of src_proto_paths without its exclusion marker.
Unmarked(entry) ==
    IF Marked(entry) THEN Tail(entry) ELSE entry

---------------------------------------------------------------------------
\* C1 as stated: after the merge (before validation and normalization),
\* every field set on both common and the named artifact has the artifact's
\* value, whatever that value is, and every field set only on common has
\* common's value.
C1_MergePrecedenceAsStated ==
    pc = "validate_artifact" =>
        /\ \A f \in ScalarFields :
              /\ (CommonSection[f] # <<>> /\ NamedSection[f] # <<>>)
                    => artifact_config[1][f] = NamedSection[f][1]
              /\ (CommonSection[f] # <<>> /\ NamedSection[f] = <<>>)
                    => artifact_config[1][f] = CommonSection[f][1]
        /\ \A f \in RepeatedFields :
              /\ (Entries(CommonSection, f) # <<>> /\ Entries(NamedSection, f) # <<>>)
                    => artifact_config[1][f] = Entries(NamedSection, f)
              /\ (Entries(CommonSection, f) # <<>> /\ Entries(NamedSection, f) = <<>>)
                    => artifact_config[1][f] = Entries(CommonSection, f)

\* C1 amended: after the merge, a scalar field the named artifact sets to a
\* non-default value has the artifact's value; a scalar field the artifact
\* leaves unset (so also one set only on common) has common's value; a scalar
\* field the artifact sets to its default value has that value only when the
\* message class tracks presence, and common's value otherwise; a repeated
\* field holds common's entries followed by the artifact's.
C1_MergePrecedence ==
    pc = "validate_artifact" =>
        /\ \A f \in ScalarFields :
              /\ (NamedSection[f] # <<>> /\ NamedSection[f][1] # DefaultOf(f))
                    => artifact_config[1][f] = NamedSection[f][1]
              /\ (NamedSection[f] # <<>> /\ NamedSection[f][1] = DefaultOf(f))
                    => artifact_config[1][f] =
                          IF presence THEN DefaultOf(f) ELSE YamlScalar(CommonSection, f)
              /\ NamedSection[f] = <<>>
                    => artifact_config[1][f] = YamlScalar(CommonSection, f)
        /\ \A f \in RepeatedFields :
              artifact_config[1][f] = Entries(CommonSection, f) \o Entries(NamedSection, f)

\* C1's case: language set on both sections to different non-default
\* values, type set only on common, and the merge done.
C1_Witness ==
    /\ pc = "validate_artifact"
    /\ CommonSection.language = <<"PYTHON">>
    /\ NamedSection.language = <<"NODEJS">>
    /\ CommonSection.type = <<"GRPC">>
    /\ NamedSection.type = <<>>

\* C2 as stated: when both sections set a repeated field, the resolved
\* sequence is exactly the artifact's.
C2_WholeSequenceReplacementAsStated ==
    pc = "validate_artifact" =>
        \A f \in RepeatedFields :
            (Entries(CommonSection, f) # <<>> /\ Entries(NamedSection, f) # <<>>)
                => artifact_config[1][f] = Entries(NamedSection, f)

\* C2 amended: when both sections set a repeated field, the resolved
\* sequence is common's entries, in order, followed by the artifact's
\* entries, in order.
C2_RepeatedFieldsConcatenate ==
    pc = "validate_artifact" =>
        \A f \in RepeatedFields :
            (Entries(CommonSection, f) # <<>> /\ Entries(NamedSection, f) # <<>>)
                => /\ Len(artifact_config[1][f]) =
                          Len(Entries(CommonSection, f)) + Len(Entries(NamedSection, f))
                   /\ \A i \in 1..Len(Entries(CommonSection, f)) :
                          artifact_config[1][f][i] = Entries(CommonSection, f)[i]
                   /\ \A i \in 1..Len(Entries(NamedSection, f)) :
                          artifact_config[1][f][Len(Entries(CommonSection, f)) + i] =
                              Entries(NamedSection, f)[i]

\* C2's case: both sections set src_proto_paths, to different entries, and
\* the merge is done.
C2_Witness ==
    /\ pc = "validate_artifact"
    /\ Entries(CommonSection, "src_proto_paths") = << <<"p">> >>
    /\ Entries(NamedSection, "src_proto_paths") = << <<"q">>, <<"p">> >>

---------------------------------------------------------------------------
(* Document validation, read off the authored document.                    *)

\* Artifact j repeats the name of an earlier artifact.
RepeatsArtifactName(j) ==
    \E i \in 1..(j - 1) : SectionName(yaml.artifacts[i]) = SectionName(yaml.artifacts[j])

\* Target k of artifact j repeats the name of an earlier target of artifact j.
RepeatsTargetName(j, k) ==
    \E h \in 1..(k - 1) :
        Entries(yaml.artifacts[j], "publish_targets")[h].name =
            Entries(yaml.artifacts[j], "publish_targets")[k].name

HasRepeatedTarget(j) ==
    \E k \in 1..Len(Entries(yaml.artifacts[j], "publish_targets")) : RepeatsTargetName(j, k)

HasDuplicateArtifact ==
    \E j \in 1..Len(yaml.artifacts) : RepeatsArtifactName(j)

HasDuplicateTarget ==
    \E j \in 1..Len(yaml.artifacts) : HasRepeatedTarget(j)

\* The document was parsed and document validation has run.
DocumentValidated ==
    file_state = "ok" /\ pc \notin {"parse", "validate"}

NoArtifactLevelWork ==
    artifact_config = <<>> /\ valid_values = <<>> /\ idx = 0 /\ result = <<>>

\* C3 as stated: a document with two artifacts of one name always fails with
\* the duplicate-artifact message, before any artifact-level work, whatever
\* else it contains; a document with an artifact holding two publish targets
\* of one name fails with the duplicate-publish-target message.
C3_UniquenessAsStated ==
    DocumentValidated =>
        /\ HasDuplicateArtifact =>
              /\ pc = "raised"
              /\ raised.fmt = DUPLICATE_ARTIFACT_FORMAT
              /\ NoArtifactLevelWork
        /\ (HasDuplicateTarget /\ ~HasDuplicateArtifact) =>
              /\ pc = "raised"
              /\ raised.fmt = DUPLICATE_TARGET_FORMAT
              /\ NoArtifactLevelWork

\* C3 amended: a document with two artifacts of one name, or with an artifact
\* holding two publish targets of one name, always fails in document
\* validation before any artifact-level work, with the message of the first
\* violation in document order: the duplicate-artifact message naming the
\* first artifact that repeats an earlier name, unless an artifact before it
\* holds duplicate publish targets; otherwise the duplicate-publish-target
\* message naming the first repeated target of the first such artifact.
C3_Uniqueness ==
    (DocumentValidated /\ (HasDuplicateArtifact \/ HasDuplicateTarget)) =>
        /\ pc = "raised"
        /\ raised.type = "ValueError"
        /\ NoArtifactLevelWork
        /\ LET j == CHOOSE j \in 1..Len(yaml.artifacts) :
                      /\ RepeatsArtifactName(j) \/ HasRepeatedTarget(j)
                      /\ \A i \in 1..(j - 1) : ~RepeatsArtifactName(i) /\ ~HasRepeatedTarget(i)
           IN  IF RepeatsArtifactName(j)
               THEN /\ raised.fmt = DUPLICATE_ARTIFACT_FORMAT
                    /\ raised.args = <<SectionName(yaml.artifacts[j])>>
               ELSE LET targets == Entries(yaml.artifacts[j], "publish_targets")
                        k == CHOOSE k \in 1..Len(targets) :
                                /\ RepeatsTargetName(j, k)
                                /\ \A h \in 1..(k - 1) : ~RepeatsTargetName(j, h)
                    IN  /\ raised.fmt = DUPLICATE_TARGET_FORMAT
                        /\ raised.args = <<targets[k].name, SectionName(yaml.artifacts[j])>>

\* C3's case: the third artifact repeats the second one's name, no artifact
\* holds duplicate targets, and validation has rejected the document.
C3_Witness ==
    /\ pc = "raised"
    /\ Len(yaml.artifacts) = 3
    /\ SectionName(yaml.artifacts[1]) = "a"
    /\ SectionName(yaml.artifacts[2]) = "b"
    /\ SectionName(yaml.artifacts[3]) = "b"
    /\ ~HasDuplicateTarget
    /\ raised.fmt = DUPLICATE_ARTIFACT_FORMAT

---------------------------------------------------------------------------
(* Normalization, read off the resolved configuration.                     *)

\* The config document's directory and p, joined as os.path.join does.
JoinedWithConfigDirectory(p) ==
    Join(Dirname(artman_config_path), p)

\* What C4 says of one path: the original p and its normalized form q.
AbsoluteOrJoinedAsStated(p, q) ==
    /\ IsAbs(q) \/ q = JoinedWithConfigDirectory(p)
    /\ ~HasParentSegment(q)

AbsoluteOrJoined(p, q) ==
    /\ IF IsAbs(p) THEN q = p ELSE q = JoinedWithConfigDirectory(p)
    /\ ~HasParentSegment(p)
    /\ HasParentSegment(q) <=> (~IsAbs(p) /\ HasParentSegment(Dirname(artman_config_path)))

\* C4 as stated: every set path field of a returned configuration is
\* absolute or the join of the config document's directory and the original
\* relative path, and holds no '..' segment, for every config document path.
C4_PostNormalizationAsStated ==
    pc = "returned" =>
        /\ BeforeNormalization.service_yaml # <<>> =>
              AbsoluteOrJoinedAsStated(BeforeNormalization.service_yaml, result[1].service_yaml)
        /\ BeforeNormalization.gapic_yaml # <<>> =>
              AbsoluteOrJoinedAsStated(BeforeNormalization.gapic_yaml, result[1].gapic_yaml)
        /\ Len(result[1].src_proto_paths) = Len(BeforeNormalization.src_proto_paths)
        /\ \A i \in 1..Len(BeforeNormalization.src_proto_paths) :
              LET entry == BeforeNormalization.src_proto_paths[i]
                  out == result[1].src_proto_paths[i]
              IN  AbsoluteOrJoinedAsStated(Unmarked(entry),
                                           IF Marked(entry) THEN Tail(out) ELSE out)

\* C4 amended: every set path field of a returned configuration is the
\* original path when that is absolute, and otherwise the join of the config
\* document's directory and the original relative path; the original holds
\* no '..' segment, and the normalized field holds one exactly when the
\* original is relative and the config document's directory holds one.
C4_PostNormalization ==
    pc = "returned" =>
        /\ BeforeNormalization.service_yaml # <<>> =>
              AbsoluteOrJoined(BeforeNormalization.service_yaml, result[1].service_yaml)
        /\ BeforeNormalization.gapic_yaml # <<>> =>
              AbsoluteOrJoined(BeforeNormalization.gapic_yaml, result[1].gapic_yaml)
        /\ Len(result[1].src_proto_paths) = Len(BeforeNormalization.src_proto_paths)
        /\ \A i \in 1..Len(BeforeNormalization.src_proto_paths) :
              LET entry == BeforeNormalization.src_proto_paths[i]
                  out == result[1].src_proto_paths[i]
              IN  AbsoluteOrJoined(Unmarked(entry), IF Marked(entry) THEN Tail(out) ELSE out)

\* C4's case: a configuration is returned for a config document in a
\* directory reached through '..', with a relative service_yaml and an
\* excluded relative src_proto_paths entry.
C4_Witness ==
    /\ pc = "returned"
    /\ artman_config_path = <<".", ".", "/", "c">>
    /\ BeforeNormalization.service_yaml = <<"a">>
    /\ BeforeNormalization.src_proto_paths = << <<"-", "a">> >>
    /\ result[1].service_yaml = <<".", ".", "/", "a">>

---------------------------------------------------------------------------
\* C5: once the named artifact is merged and artifact validation has run, a
\* merged configuration with language NODEJS and type GRPC has made the call
\* fail with the incompatible-artifact error, whatever its other fields; in
\* particular not with the traversal error when a path field holds a
\* traversal, and no such configuration is normalized or returned.
C5_NodejsGrpcIncompatible ==
    (/\ Matched
     /\ pc \notin {"merge", "validate_artifact"}
     /\ artifact_config[1].language = "NODEJS"
     /\ artifact_config[1].type = "GRPC") =>
        /\ pc = "raised"
        /\ raised = ValueError(INCOMPATIBLE_MESSAGE, <<>>)
        /\ result = <<>>
        /\ artifact_config[1] = BeforeNormalization

\* C5's case: NODEJS comes from common, GRPC from the artifact, the artifact
\* also has a service_yaml with a traversal, and the call has failed.
C5_Witness ==
    /\ pc = "raised"
    /\ Matched
    /\ CommonSection.language = <<"NODEJS">>
    /\ NamedSection.language = <<>>
    /\ NamedSection.type = <<"GRPC">>
    /\ NamedSection.service_yaml = <<DotDotSlashX>>
    /\ raised.fmt = INCOMPATIBLE_MESSAGE

\* No artifact of the validated document is named artifact_name.
NameAbsent ==
    \A i \in 1..Len(yaml.artifacts) : SectionName(yaml.artifacts[i]) # artifact_name

\* C6: when the document passes document validation and no artifact has the
\* requested name, the call fails with the not-found error whose valid values
\* are exactly the artifact names of the document, in document order.
C6_NotFoundListsAllNames ==
    (/\ DocumentValidated
     /\ ~HasDuplicateArtifact /\ ~HasDuplicateTarget
     /\ NameAbsent
     /\ pc \in {"raised", "returned"}) =>
        /\ pc = "raised"
        /\ raised.type = "ValueError"
        /\ raised.fmt = NOT_FOUND_FORMAT
        /\ raised.args[1] = artifact_name
        /\ Len(raised.args[2]) = Len(yaml.artifacts)
        /\ \A i \in 1..Len(yaml.artifacts) :
              raised.args[2][i] = SectionName(yaml.artifacts[i])

\* C6's case: the artifacts a, b, c, the requested name z, and the failure.
C6_Witness ==
    /\ pc = "raised"
    /\ artifact_name = "z"
    /\ Len(yaml.artifacts) = 3
    /\ SectionName(yaml.artifacts[1]) = "a"
    /\ SectionName(yaml.artifacts[2]) = "b"
    /\ SectionName(yaml.artifacts[3]) = "c"
    /\ raised.fmt = NOT_FOUND_FORMAT

\* The path fields of the resolved configuration the traversal test is
\* applied to, in the order the code reaches them: <<field name, path>>.
TestedPaths ==
    (IF BeforeNormalization.service_yaml # <<>>
     THEN << <<"service_yaml", BeforeNormalization.service_yaml>> >> ELSE <<>>)
    \o (IF BeforeNormalization.gapic_yaml # <<>>
        THEN << <<"gapic_yaml", BeforeNormalization.gapic_yaml>> >> ELSE <<>>)
    \o [i \in 1..Len(BeforeNormalization.src_proto_paths) |->
           <<"src_proto_paths", Unmarked(BeforeNormalization.src_proto_paths[i])>>]

\* Normalization of the resolved configuration has ended, one way or the other.
NormalizationEnded ==
    /\ Matched
    /\ pc \in {"raised", "returned"}
    /\ ~(raised.type = "ValueError" /\ raised.fmt = INCOMPATIBLE_MESSAGE)

\* C7: normalization fails with the traversal error exactly when some set
\* path field of the resolved configuration (service_yaml, gapic_yaml, a
\* src_proto_paths entry without its exclusion marker) starts with '..' or
\* contains '/..', and the error names the first such field; so '../x',
\* 'a/../b', 'a/..b' and '-../x' are rejected and 'a..b' is accepted.
C7_TraversalRejection ==
    NormalizationEnded =>
        /\ pc = "raised" <=>
              \E i \in 1..Len(TestedPaths) :
                  StartsWithDotDotOrContainsSlashDotDot(TestedPaths[i][2])
        /\ pc = "raised" =>
              /\ raised.type = "ValueError"
              /\ raised.fmt = TRAVERSAL_FORMAT
              /\ LET i == CHOOSE i \in 1..Len(TestedPaths) :
                            /\ StartsWithDotDotOrContainsSlashDotDot(TestedPaths[i][2])
                            /\ \A h \in 1..(i - 1) :
                                  ~StartsWithDotDotOrContainsSlashDotDot(TestedPaths[h][2])
                 IN  raised.args[1] = TestedPaths[i][1]
        /\ \A i \in 1..Len(TestedPaths) :
              /\ TestedPaths[i][2] \in {DotDotSlashX, ASlashDotDotSlashB, ASlashDotDotB}
                    => pc = "raised"
              /\ (Len(TestedPaths) = 1 /\ TestedPaths[i][2] = ADotDotB) => pc = "returned"
        /\ \A i \in 1..Len(BeforeNormalization.src_proto_paths) :
              BeforeNormalization.src_proto_paths[i] = ExclDotDotSlashX => pc = "raised"

\* C7's case: the only path field is the src_proto_paths entry '-../x', and
\* normalization has rejected it.
C7_Witness ==
    /\ NormalizationEnded
    /\ BeforeNormalization.src_proto_paths = <<ExclDotDotSlashX>>
    /\ Len(TestedPaths) = 1
    /\ pc = "raised"
    /\ raised.fmt = TRAVERSAL_FORMAT

\* C8 as stated: the normalized src_proto_paths has the length and order of
\* the input, a marked entry becomes '-' followed by its normalized
\* remainder, an unmarked entry becomes its normalization, and an output
\* starts with '-' exactly when its input does.
C8_SrcProtoPathsAsStated ==
    pc = "returned" =>
        /\ Len(result[1].src_proto_paths) = Len(BeforeNormalization.src_proto_paths)
        /\ \A i \in 1..Len(BeforeNormalization.src_proto_paths) :
              LET entry == BeforeNormalization.src_proto_paths[i]
                  out == result[1].src_proto_paths[i]
              IN  /\ Marked(out) <=> Marked(entry)
                  /\ Marked(entry) => out = <<"-">> \o
                        (IF IsAbs(Tail(entry)) THEN Tail(entry)
                         ELSE JoinedWithConfigDirectory(Tail(entry)))
                  /\ ~Marked(entry) => out =
                        (IF IsAbs(entry) THEN entry ELSE JoinedWithConfigDirectory(entry))

\* C8, as far as the code satisfies it: the normalized src_proto_paths has
\* the length and order of the input, a marked entry becomes '-' followed by its normalized
\* remainder, an unmarked entry becomes its normalization; the output of a
\* marked entry starts with '-', and the output of an unmarked entry starts
\* with '-' only when the entry is relative and the config document's
\* directory starts with '-'.  The specification's example resolves as it
\* says.
C8_SrcProtoPaths ==
    pc = "returned" =>
        /\ Len(result[1].src_proto_paths) = Len(BeforeNormalization.src_proto_paths)
        /\ \A i \in 1..Len(BeforeNormalization.src_proto_paths) :
              LET entry == BeforeNormalization.src_proto_paths[i]
                  out == result[1].src_proto_paths[i]
              IN  /\ Marked(entry) => Marked(out)
                  /\ ~Marked(entry) =>
                        (Marked(out) <=>
                            (~IsAbs(entry) /\ Marked(Dirname(artman_config_path))))
                  /\ Marked(entry) => out = <<"-">> \o
                        (IF IsAbs(Tail(entry)) THEN Tail(entry)
                         ELSE JoinedWithConfigDirectory(Tail(entry)))
                  /\ ~Marked(entry) => out =
                        (IF IsAbs(entry) THEN entry ELSE JoinedWithConfigDirectory(entry))
        /\ (/\ artman_config_path = CfgExample
            /\ BeforeNormalization.src_proto_paths = <<ProtoX, ExclProtoY>>) =>
              /\ result[1].src_proto_paths = <<NormProtoX, NormExclProtoY>>
              /\ result[1].language = "PYTHON"
              /\ result[1].type = "GRPC"

\* C8's case: the specification's example has been resolved.
C8_Witness ==
    /\ pc = "returned"
    /\ artman_config_path = CfgExample
    /\ artifact_name = "foo"
    /\ BeforeNormalization.src_proto_paths = <<ProtoX, ExclProtoY>>
    /\ Len(result[1].src_proto_paths) = 2

---------------------------------------------------------------------------
\* C9 as stated: _normalize_path returns an absolute path without traversal
\* unchanged, for every config document path; and normalizing an absolute
\* output of a normalization once more returns that output unchanged.
C9_IdempotenceAsStated ==
    /\ (np_out # <<>> /\ IsAbs(np_path)
            /\ ~StartsWithDotDotOrContainsSlashDotDot(np_path)) =>
          (np_out[1].ok /\ np_out[1].val = np_path)
    /\ (np_again # <<>> /\ IsAbs(np_out[1].val)) =>
          (np_again[1].ok /\ np_again[1].val = np_out[1].val)

\* C9 amended: _normalize_path returns an absolute path without traversal
\* unchanged, for every config document path; normalizing an absolute output
\* once more, under any config document path, returns it unchanged unless the
\* output came from joining a relative path to a config document directory
\* that contains '/..', in which case the second normalization fails with
\* the traversal error.
C9_Idempotence ==
    /\ (np_out # <<>> /\ IsAbs(np_path)
            /\ ~StartsWithDotDotOrContainsSlashDotDot(np_path)) =>
          (np_out[1].ok /\ np_out[1].val = np_path)
    /\ (np_again # <<>> /\ IsAbs(np_out[1].val)) =>
          IF ~IsAbs(np_path)
             /\ Contains(Dirname(artman_config_path), <<"/", ".", ".">>)
          THEN /\ ~np_again[1].ok
               /\ pc = "raised"
               /\ raised.fmt = TRAVERSAL_FORMAT
          ELSE /\ np_again[1].ok
               /\ np_again[1].val = np_out[1].val
               /\ pc = "returned"

\* C9's case: a relative path was made absolute by the first call, and the
\* second call, under another config document path, returned it unchanged.
C9_Witness ==
    /\ pc = "returned"
    /\ np_path = <<"a">>
    /\ artman_config_path = <<"/", "d", "/", "c">>
    /\ np_config = <<"/", "c">>
    /\ np_out[1].val = <<"/", "d", "/", "a">>
    /\ np_again[1].val = <<"/", "d", "/", "a">>

\* C10: read_user_config returns a default UserConfig and does not fail when
\* no file is at the expanded path; fails, after logging an error, and
\* returns nothing when the file is malformed; returns the parsed object when
\* the file is well-formed.
C10_UserConfigLoading ==
    pc \in {"returned", "raised"} =>
        /\ user_path \notin fs =>
              (pc = "returned" /\ result = <<DefaultUserConfig>>)
        /\ (user_path \in fs /\ content.kind # "ok") =>
              /\ pc = "raised"
              /\ result = <<>>
              /\ \E i \in 1..Len(log) :
                    /\ log[i].level = "error"
                    /\ log[i].fmt = INVALID_USER_CONFIG_ERROR_MESSAGE_FORMAT
        /\ (user_path \in fs /\ content.kind = "ok") =>
              (pc = "returned" /\ result = <<[assigned |-> content.assigned]>>)

====
